---- MODULE Spec2Model ----
(***************************************************************************)
(* Model of calculate_p_for_combined_coefficient.py: the voxel-wise        *)
(* two-sided p-value of the sum of two Cox regression coefficients         *)
(* (compute_combined_pvalue) and the run of main around it.                *)
(*                                                                         *)
(* A float64 is modelled as a record: a finite value in fixed point with   *)
(* PrecisionBits fractional bits and a magnitude below                     *)
(* 2^(30 - PrecisionBits), or NaN, or a signed infinity, or the largest    *)
(* finite float64 with its sign.  The arithmetic follows IEEE-754 for the  *)
(* special values (NaN propagation, Inf - Inf = NaN, x / Inf = 0,          *)
(* comparisons with NaN false, overflow beyond the largest finite value    *)
(* to infinity).  Sums are exact; products, quotients, square roots and    *)
(* the t CDF are rounded to the nearest value of the fixed-point grid.  An *)
(* operation whose float64 result is finite but not on that grid (beyond   *)
(* its range) has no value here.                                           *)
(***************************************************************************)
EXTENDS Integers, Sequences, FiniteSets, TLC

\* ------------------------------------------------------------------ bounds
\* Fractional bits of the fixed-point stand-in for a finite float64.
PrecisionBits == 10
\* Largest number of voxels of a volume.
MaxVoxels == 2

ONE == 2 ^ PrecisionBits
HALF == ONE \div 2
QUARTER == ONE \div 4
EIGHTH == ONE \div 8

\* The finer unit (20 fractional bits) in which the t CDF is worked out
\* before it is rounded to the grid.
FINE == 2 ^ 20
\* pi in that unit.
PI_FINE == 3294199 * (FINE \div (2 ^ 20))
\* The largest integer of the arithmetic underneath.
IntMax == (2 ^ 30 - 1) + 2 ^ 30

\* ------------------------------------------------------ float64 stand-in
F(n) == [k |-> "fin", v |-> n]
NaN == [k |-> "nan", v |-> 0]
PInf == [k |-> "inf", v |-> 1]
NInf == [k |-> "inf", v |-> -1]

\* The largest finite float64 (1.7976931348623157e308): any finite value
\* of the grid added to it rounds back to it, and twice it overflows.
FloatMax == [k |-> "max", v |-> 1]

IsNaN(a) == a.k = "nan"
IsInf(a) == a.k = "inf"
IsMax(a) == a.k = "max"
\* A finite value of the grid: .v is its value in units of 1 / ONE.
IsGrid(a) == a.k = "fin"
\* np.isfinite: every float but NaN and the infinities, the largest
\* finite float64 included.
IsFin(a) == IsGrid(a) \/ IsMax(a)

AbsInt(n) == IF n < 0 THEN -n ELSE n

\* The element of a singleton.  { e(v) : v \in {x} } names the value of x
\* as v, computed once, before e is worked out.
The(S) == CHOOSE r \in S : TRUE

\* Sign of a float; +0.0 counts as positive, as in IEEE division.
Sgn(a) == IF a.v < 0 THEN -1 ELSE 1

\* One digit of the long multiplication below: h = <<q, r>> for
\* b \div R gives <<q, r>> for b, where m = a % c and d = b % R.  No
\* intermediate exceeds IntMax: r * R and m * d are below c * R, and the
\* two remainders below c.
MulDivStep(h, a, c, R, m, d) ==
    LET r1 == (h[2] * R) % c
        r2 == (m * d) % c
        carry == IF r1 + r2 >= c THEN 1 ELSE 0
    IN <<h[1] * R + (a \div c) * d + ((h[2] * R) \div c) + ((m * d) \div c)
           + carry,
         r1 + r2 - carry * c>>

\* <<q, r>> with a * b = q * c + r and 0 <= r < c, digit by digit of b in
\* base R.
RECURSIVE MulDivDigits(_, _, _, _)
MulDivDigits(a, b, c, R) ==
    IF b = 0 THEN <<0, 0>>
    ELSE The({MulDivStep(h, a, c, R, a % c, b % R)
              : h \in {MulDivDigits(a, b \div R, c, R)}})

\* The same, directly where a * b is within IntMax, and else in the
\* largest base R with c * R <= 2^30 (at least 2).
MulDivInt(a, b, c) ==
    IF a = 0 \/ b <= IntMax \div a THEN <<(a * b) \div c, (a * b) % c>>
    ELSE MulDivDigits(a, b, c, IF c > 2 ^ 29 THEN 2 ELSE (2 ^ 30) \div c)

\* <<q, r>> with a * b = q * c + r and 0 <= r < c, for a, b >= 0 and
\* 0 < c < 2^30.
MulDiv(a, b, c) ==
    The({MulDivInt(x, y, z) : x \in {a}, y \in {b}, z \in {c}})

\* floor(a * b / c)
MulDivFloor(a, b, c) == MulDiv(a, b, c)[1]

\* a * b / c rounded to the nearest integer
MulDivRound(a, b, c) ==
    The({IF 2 * p[2] >= c THEN p[1] + 1 ELSE p[1] : p \in {MulDiv(a, b, c)}})

\* The float of sign s and finite magnitude m.
Signed(s, m) == F(s * m)

Neg(a) == IF IsNaN(a) THEN NaN ELSE [a EXCEPT !.v = -a.v]

\* a + b
Add(a, b) ==
    IF IsNaN(a) \/ IsNaN(b) THEN NaN
    ELSE IF IsInf(a) /\ IsInf(b) THEN (IF a.v = b.v THEN a ELSE NaN)
    ELSE IF IsInf(a) THEN a
    ELSE IF IsInf(b) THEN b
    ELSE IF IsMax(a) /\ IsMax(b)
         THEN (IF a.v = b.v THEN [k |-> "inf", v |-> a.v] ELSE F(0))
    ELSE IF IsMax(a) THEN a
    ELSE IF IsMax(b) THEN b
    ELSE F(a.v + b.v)

\* a - b
Sub(a, b) == Add(a, Neg(b))

\* The largest finite float64 times or divided by a finite factor of
\* magnitude m (in grid units), with sign s: the factors on the side of
\* overflow give infinity, the factor 1 gives it back.  (The other
\* products are finite and beyond the grid.)
MaxScaled(s, m, overflows) ==
    CASE m = ONE -> [k |-> "max", v |-> s]
      [] overflows -> [k |-> "inf", v |-> s]

\* a * b
Mul(a, b) ==
    IF IsNaN(a) \/ IsNaN(b) THEN NaN
    ELSE IF IsInf(a) \/ IsInf(b)
         THEN (IF (IsGrid(a) /\ a.v = 0) \/ (IsGrid(b) /\ b.v = 0) THEN NaN
               ELSE [k |-> "inf", v |-> Sgn(a) * Sgn(b)])
    ELSE IF IsMax(a) /\ IsMax(b) THEN [k |-> "inf", v |-> Sgn(a) * Sgn(b)]
    ELSE IF IsMax(a)
         THEN (IF b.v = 0 THEN F(0)
               ELSE MaxScaled(Sgn(a) * Sgn(b), AbsInt(b.v), AbsInt(b.v) > ONE))
    ELSE IF IsMax(b)
         THEN (IF a.v = 0 THEN F(0)
               ELSE MaxScaled(Sgn(a) * Sgn(b), AbsInt(a.v), AbsInt(a.v) > ONE))
    ELSE Signed(Sgn(a) * Sgn(b), MulDivRound(AbsInt(a.v), AbsInt(b.v), ONE))

\* a / b (numpy: a warning, never an exception, on a zero divisor)
Div(a, b) ==
    IF IsNaN(a) \/ IsNaN(b) THEN NaN
    ELSE IF IsInf(a) THEN (IF IsInf(b) THEN NaN
                           ELSE [k |-> "inf", v |-> Sgn(a) * Sgn(b)])
    ELSE IF IsInf(b) THEN F(0)
    ELSE IF IsMax(a) /\ IsMax(b) THEN F(Sgn(a) * Sgn(b) * ONE)
    ELSE IF IsMax(a)
         THEN MaxScaled(Sgn(a) * Sgn(b), AbsInt(b.v), AbsInt(b.v) < ONE)
    ELSE IF IsMax(b) THEN F(0)
    ELSE IF b.v = 0 THEN (IF a.v = 0 THEN NaN
                          ELSE [k |-> "inf", v |-> Sgn(a)])
    ELSE Signed(Sgn(a) * Sgn(b), MulDivRound(AbsInt(a.v), ONE, AbsInt(b.v)))

\* a <= 0 (False for NaN)
LeqZero(a) == ~IsNaN(a) /\ a.v <= 0

\* a > 0 (False for NaN)
GtZero(a) == ~IsNaN(a) /\ a.v > 0

\* |a|
Abs(a) == IF IsNaN(a) THEN NaN ELSE [a EXCEPT !.v = AbsInt(a.v)]

\* s is the integer square root of n: s^2 <= n < (s + 1)^2, written with
\* quotients so that no square exceeds IntMax.
IsRoot(s, n) == (s = 0 \/ s <= n \div s) /\ n \div (s + 1) < s + 1

\* floor(sqrt(n)) for every integer 0 <= n <= IntMax, four binary digits
\* at a time: the root of n lies within 16 r .. 16 r + 15 for r the root
\* of n \div 256.
RECURSIVE ISqrt(_)
ISqrt(n) ==
    IF n < 256 THEN CHOOSE s \in 0 .. 15 : IsRoot(s, n)
    ELSE The({CHOOSE s \in (16 * r) .. (16 * r + 15) : IsRoot(s, n)
              : r \in {ISqrt(n \div 256)}})

\* <<s, r>> with s = floor(sqrt(n * 4^k)) and r = n * 4^k - s^2: the root
\* of n, then one more binary digit at a time.
RECURSIVE SqrtShift(_, _)
SqrtShift(n, k) ==
    IF k = 0 THEN The({<<s, n - s * s>> : s \in {ISqrt(n)}})
    ELSE The({IF 4 * p[2] >= 4 * p[1] + 1
              THEN <<2 * p[1] + 1, 4 * p[2] - 4 * p[1] - 1>>
              ELSE <<2 * p[1], 4 * p[2]>> : p \in {SqrtShift(n, k - 1)}})

\* sqrt(n * 4^k) rounded to the nearest integer
SqrtShiftRound(n, k) ==
    The({IF p[2] > p[1] THEN p[1] + 1 ELSE p[1] : p \in {SqrtShift(n, k)}})

\* sqrt(a): NaN for a negative operand.  (The root of the largest finite
\* float64 is finite and beyond the grid.)
Sqrt(a) ==
    IF IsNaN(a) THEN NaN
    ELSE IF a.v < 0 THEN NaN
    ELSE IF IsInf(a) THEN PInf
    ELSE CASE IsGrid(a) ->
              IF PrecisionBits % 2 = 0
              THEN F(SqrtShiftRound(a.v, PrecisionBits \div 2))
              ELSE F(SqrtShiftRound(2 * a.v, (PrecisionBits - 1) \div 2))

\* ------------------------------------------------- scipy.stats.t.cdf
\* The Student t distribution function for integer df (main's df is a
\* difference of integers; here 1 <= df < 2048), from its closed form in
\* theta = arctan(t / sqrt(df)), worked out in FINE units:
\*   df even:  P(|T| <= t) = sin(theta) * (1 + 1/2 c + (1*3)/(2*4) c^2 + ...
\*                             up to c^((df-2)/2)),           c = cos^2(theta)
\*   df = 1:   P(|T| <= t) = 2 theta / pi
\*   df odd:   P(|T| <= t) = 2/pi * (theta + sin(theta) cos(theta) *
\*                             (1 + 2/3 c + (2*4)/(3*5) c^2 + ...
\*                             up to c^((df-3)/2)))

\* The terms lo .. hi of such a series, relative to the term before them:
\* <<P, S>> with P = r_lo c * ... * r_hi c and S = r_lo c + r_lo c r_(lo+1) c
\* + ... + P, where r_j = (2j-1)/(2j) for even df and (2j)/(2j+1) for odd
\* df.  The two halves <<P1, S1>> and <<P2, S2>> of a range combine to
\* <<P1 P2, S1 + P1 S2>>.
RECURSIVE TTerms(_, _, _, _)
TTerms(lo, hi, cos2, odd) ==
    IF lo = hi
    THEN The({<<p, p>>
              : p \in {MulDivRound(cos2,
                                   IF odd THEN 2 * lo ELSE 2 * lo - 1,
                                   IF odd THEN 2 * lo + 1 ELSE 2 * lo)}})
    ELSE The({The({<<MulDivRound(h1[1], h2[1], FINE),
                     h1[2] + MulDivRound(h1[1], h2[2], FINE)>>
                   : h1 \in {TTerms(lo, mid, cos2, odd)},
                     h2 \in {TTerms(mid + 1, hi, cos2, odd)}})
              : mid \in {(lo + hi) \div 2}})

\* The series 1 + r_1 c + r_1 r_2 c^2 + ... up to the term in c^last.
TSeries(last, cos2, odd) ==
    IF last < 1 THEN FINE ELSE FINE + TTerms(1, last, cos2, odd)[2]

\* The terms k .. last of arctan(v) / v = 1 - w/3 + w^2/5 - ..., w = v^2, in
\* Horner form: 1/(2k+1) - w (1/(2k+3) - w (...)).
RECURSIVE ArcTanSeries(_, _, _)
ArcTanSeries(w, k, last) ==
    IF k > last THEN 0
    ELSE The({(FINE \div (2 * k + 1)) - MulDivFloor(w, rest, FINE)
              : rest \in {ArcTanSeries(w, k + 1, last)}})

\* arctan(v) for 0 <= v <= 1/2.
ArcTanSmall(v) ==
    The({MulDivFloor(v, ArcTanSeries(w, 0, 12), FINE)
         : w \in {MulDivFloor(v, v, FINE)}})

\* arctan(u) for 0 <= u <= 1: above 1/2 as pi/4 - arctan((1-u)/(1+u)).
ArcTan(u) ==
    IF 2 * u > FINE
    THEN (PI_FINE \div 4) - ArcTanSmall(MulDivFloor(FINE - u, FINE, FINE + u))
    ELSE ArcTanSmall(u)

\* tan(theta) = t / sqrt(df) when that is at most 1 (steep = FALSE), else
\* cot(theta) = sqrt(df) / t (steep = TRUE), for t = x / ONE >= 0.
Slope(x, df) ==
    IF x > SqrtShift(df, PrecisionBits)[1]
    THEN [steep |-> TRUE,
          u |-> MulDivFloor(SqrtShift(df * FINE, 10)[1], ONE, x)]
    ELSE [steep |-> FALSE,
          u |-> MulDivFloor(x * (FINE \div ONE), FINE,
                            SqrtShift(df * FINE, 10)[1])]

\* sin(theta), cos(theta) and theta from the slope: with u the tangent
\* or cotangent and h = 1 / sqrt(1 + u^2), the two are u h and h.
Angle(sl, h) ==
    [sinT |-> IF sl.steep THEN h ELSE MulDivFloor(sl.u, h, FINE),
     cosT |-> IF sl.steep THEN MulDivFloor(sl.u, h, FINE) ELSE h,
     theta |-> IF sl.steep THEN (PI_FINE \div 2) - ArcTan(sl.u)
               ELSE ArcTan(sl.u)]

\* The closed form at an angle, in FINE units.
MassAt(an, cos2, df) ==
    IF df % 2 = 0
    THEN MulDivFloor(an.sinT, TSeries((df - 2) \div 2, cos2, FALSE), FINE)
    ELSE IF df = 1 THEN MulDivFloor(2 * an.theta, FINE, PI_FINE)
    ELSE MulDivFloor(
           2 * (an.theta
                + MulDivFloor(MulDivFloor(an.sinT, an.cosT, FINE),
                              TSeries((df - 3) \div 2, cos2, TRUE), FINE)),
           FINE, PI_FINE)

\* P(|T| <= x / ONE) in FINE units for finite x >= 0 and df >= 1.
TwoSidedMass(x, df) ==
    The({The({MassAt(an, cos2, df)
              : cos2 \in {MulDivFloor(an.cosT, an.cosT, FINE)}})
         : an \in {The({Angle(sl, h)
                        : h \in {MulDivFloor(FINE, FINE,
                                   SqrtShift(FINE + MulDivFloor(sl.u, sl.u,
                                                                FINE),
                                             10)[1])}})
                   : sl \in {Slope(x, df)}}})

\* FINE units to the grid: (n / 2) / FINE rounded to the nearest multiple
\* of 1 / ONE.
HalfToGrid(n) == (n + (FINE \div ONE)) \div (2 * (FINE \div ONE))

\* t.cdf(x, df): NaN where df <= 0 (the distribution's argument check
\* fails) or x is NaN; 0 and 1 at the infinities (and, to the last bit of a
\* float64, at the largest finite values); 1/2 +- P(|T| <= |x|) / 2
\* elsewhere.
T_cdf(x, df) ==
    IF df <= 0 \/ IsNaN(x) THEN NaN
    ELSE IF IsInf(x) \/ IsMax(x) THEN (IF x.v > 0 THEN F(ONE) ELSE F(0))
    ELSE IF x.v >= 0 THEN F(HalfToGrid(FINE + TwoSidedMass(x.v, df)))
    ELSE F(HalfToGrid(FINE - TwoSidedMass(-x.v, df)))

\* np.nan_to_num(a, nan=0): NaN to 0, the infinities to the largest
\* finite float64 of their sign.
NanToNum(a) ==
    IF IsNaN(a) THEN F(0)
    ELSE IF IsInf(a) THEN (IF a.v > 0 THEN FloatMax ELSE Neg(FloatMax))
    ELSE a

\* ------------------------------------------------------------ ndarrays
\* An ndarray: its shape and its values in index order.
Size(shape) == shape[1] * shape[2]
Arr(shape, data) == [shape |-> shape, data |-> data]
Idx(a) == 1 .. Len(a.data)

Shapes == {s \in (1..MaxVoxels) \X (1..MaxVoxels) : Size(s) <= MaxVoxels}

\* Every array over the values V.
Arrays(V) ==
    UNION {{Arr(s, d) : d \in [1..Size(s) -> V]} : s \in Shapes}

\* A local not yet assigned.
Unset == <<>>

\* ---------------------------------------- compute_combined_pvalue
\* Element-wise a + b of two same-shaped arrays: a fresh array.
ArrAdd(a, b) == Arr(a.shape, [i \in Idx(a) |-> Add(a.data[i], b.data[i])])

\* Element-wise scalar * a: a fresh array.
ArrScale(c, a) == Arr(a.shape, [i \in Idx(a) |-> Mul(c, a.data[i])])

\* The frame of a call: the five argument arrays (the caller's objects,
\* so what the call leaves in them is part of its effect), df, and the
\* locals, Unset until assigned.
Frame(beta1, beta2, var1, var2, cov12, df) ==
    [beta1 |-> beta1, beta2 |-> beta2, var1 |-> var1, var2 |-> var2,
     cov12 |-> cov12, df |-> df,
     var_sum |-> Unset, se_sum |-> Unset, beta_sum |-> Unset,
     t_stat |-> Unset, p_value_with_nans |-> Unset,
     p_value_no_nans |-> Unset]

\* Line 68 with the covariance counted once: var1 + var2 + cov12.
S68_SingleCov(fr) ==
    [fr EXCEPT !.var_sum = ArrAdd(ArrAdd(fr.var1, fr.var2), fr.cov12)]

\* Line 68: var_sum = var1 + var2 + 2.0 * cov12
S68_var_sum(fr) ==
    [fr EXCEPT !.var_sum =
        ArrAdd(ArrAdd(fr.var1, fr.var2), ArrScale(F(2 * ONE), fr.cov12))]

\* Line 71 on an alias of var1 (var_sum built in place, var1 += ...): the
\* NaN marks land in the caller's var1 as well.
S71_InPlace(fr) ==
    [fr EXCEPT !.var_sum =
        Arr(@.shape, [i \in Idx(@) |->
                         IF LeqZero(@.data[i]) THEN NaN ELSE @.data[i]]),
               !.var1 =
        Arr(@.shape, [i \in Idx(@) |->
                         IF LeqZero(fr.var_sum.data[i]) THEN NaN
                         ELSE fr.var_sum.data[i]])]

\* Line 71 with a whole-array test: any non-positive voxel marks them all.
S71_GuardAll(fr) ==
    [fr EXCEPT !.var_sum =
        Arr(@.shape, [i \in Idx(@) |->
                         IF \E j \in Idx(@) : LeqZero(@.data[j]) THEN NaN
                         ELSE @.data[i]])]

\* Line 71: var_sum[var_sum <= 0] = np.nan (var_sum is the fresh array of
\* line 68: no argument is written)
S71_guard(fr) ==
    [fr EXCEPT !.var_sum =
        Arr(@.shape, [i \in Idx(@) |->
                         IF LeqZero(@.data[i]) THEN NaN ELSE @.data[i]])]

\* Line 73: se_sum = np.sqrt(var_sum)
S73_se_sum(fr) ==
    [fr EXCEPT !.se_sum =
        Arr(fr.var_sum.shape,
            [i \in Idx(fr.var_sum) |-> Sqrt(fr.var_sum.data[i])])]

\* Line 74 with the difference: beta1 - beta2.
S74_Difference(fr) ==
    [fr EXCEPT !.beta_sum =
        Arr(fr.beta1.shape,
            [i \in Idx(fr.beta1) |-> Sub(fr.beta1.data[i], fr.beta2.data[i])])]

\* Line 74: beta_sum = beta1 + beta2
S74_beta_sum(fr) == [fr EXCEPT !.beta_sum = ArrAdd(fr.beta1, fr.beta2)]

\* Line 75: t_stat = beta_sum / se_sum
S75_t_stat(fr) ==
    [fr EXCEPT !.t_stat =
        Arr(fr.beta_sum.shape,
            [i \in Idx(fr.beta_sum) |->
                Div(fr.beta_sum.data[i], fr.se_sum.data[i])])]

\* Line 78 without np.abs: 2.0 * (1.0 - t.cdf(t_stat, df)).
S78_NoAbs(fr) ==
    [fr EXCEPT !.p_value_with_nans =
        Arr(fr.t_stat.shape,
            [i \in Idx(fr.t_stat) |->
                The({Mul(F(2 * ONE), Sub(F(ONE), c))
                     : c \in {T_cdf(fr.t_stat.data[i], fr.df)}})])]

\* Line 78 without the complement: 2.0 * t.cdf(np.abs(t_stat), df).
S78_NoComplement(fr) ==
    [fr EXCEPT !.p_value_with_nans =
        Arr(fr.t_stat.shape,
            [i \in Idx(fr.t_stat) |->
                The({Mul(F(2 * ONE), c)
                     : c \in {T_cdf(Abs(fr.t_stat.data[i]), fr.df)}})])]

\* Line 78: p_value_with_nans = 2.0 * (1.0 - t.cdf(np.abs(t_stat), df))
\* (c is the array t.cdf returns, computed before the arithmetic on it)
S78_p_value_with_nans(fr) ==
    [fr EXCEPT !.p_value_with_nans =
        Arr(fr.t_stat.shape,
            [i \in Idx(fr.t_stat) |->
                The({Mul(F(2 * ONE), Sub(F(ONE), c))
                     : c \in {T_cdf(Abs(fr.t_stat.data[i]), fr.df)}})])]

\* Line 82 without the cleaning: the NaNs are returned.
S82_Keep(fr) == [fr EXCEPT !.p_value_no_nans = fr.p_value_with_nans]

\* Line 82: p_value_no_nans = np.nan_to_num(p_value_with_nans, nan=0)
S82_p_value_no_nans(fr) ==
    [fr EXCEPT !.p_value_no_nans =
        Arr(fr.p_value_with_nans.shape,
            [i \in Idx(fr.p_value_with_nans) |->
                NanToNum(fr.p_value_with_nans.data[i])])]

\* Lines 68-86: the frame when the function returns; .p_value_no_nans is
\* the value returned, .beta1 ... .cov12 what the call leaves in the
\* caller's arrays.
\* (Each statement runs on the frame the one before it left: the set
\* constructors bind that frame as a value, computed once.)
compute_combined_pvalue(beta1, beta2, var1, var2, cov12, df) ==
    CHOOSE ret \in
      {S82_p_value_no_nans(f78) : f78 \in
        {S78_p_value_with_nans(f75) : f75 \in
          {S75_t_stat(f74) : f74 \in
            {S74_beta_sum(f73) : f73 \in
              {S73_se_sum(f71) : f71 \in
                {S71_guard(f68) : f68 \in
                  {S68_var_sum(f0) : f0 \in
                    {Frame(beta1, beta2, var1, var2, cov12, df)}}}}}}}} : TRUE

\* --------------------------------------------------------------- main
\* Line 94 without the "- 1".
DfOf_NoMinusOne(obs, preds) == obs - preds

\* Line 94: df = args.n_obs - args.n_predictors - 1
DfOf(obs, preds) == obs - preds - 1

\* The sanity check on the voxel counts instead of the shapes.
ShapeMismatch_BySize(b4, b6, v4, v6, c46) ==
    ~(/\ Size(b4.shape) = Size(b6.shape)
      /\ Size(b6.shape) = Size(v4.shape)
      /\ Size(v4.shape) = Size(v6.shape)
      /\ Size(v6.shape) = Size(c46.shape))

\* The sanity check also rejecting volumes that hold a NaN coefficient.
ShapeMismatch_OrNaN(b4, b6, v4, v6, c46) ==
    \/ ~(/\ b4.shape = b6.shape
         /\ b6.shape = v4.shape
         /\ v4.shape = v6.shape
         /\ v6.shape = c46.shape)
    \/ \E i \in Idx(b4) : IsNaN(b4.data[i])

\* Lines 103-104: the negation of the chained comparison
\* beta_4.shape == beta_6.shape == var_4.shape == var_6.shape == cov_46.shape
ShapeMismatch(b4, b6, v4, v6, c46) ==
    ~(/\ b4.shape = b6.shape
      /\ b6.shape = v4.shape
      /\ v4.shape = v6.shape
      /\ v6.shape = c46.shape)

VARIABLES
    pc,            \* main's position
    n_obs,         \* args.n_obs
    n_predictors,  \* args.n_predictors
    files,         \* the five input NIfTI files, by argument name
    df,            \* main's local df
    beta_4, beta_6, var_4, var_6, cov_46,   \* main's loaded arrays
    p_map,         \* main's local p_map
    output,        \* the data of the file at args.output (Unset: no file)
    calls,         \* the functions main has called after loading, in order
    engine_df      \* the df compute_combined_pvalue was called with

vars == <<pc, n_obs, n_predictors, files, df, beta_4, beta_6, var_4, var_6,
          cov_46, p_map, output, calls, engine_df>>

\* Command-line values of the runs: df = n_obs - n_predictors - 1 takes
\* the values 3, 2, 0 and -2.
ObsVals == {9}
PredVals == {5, 6, 8, 10}

\* Voxel values of the input files of a run of main: regular, NaN,
\* negative and infinite values.
Beta4Vals == {F(ONE), NaN}
Beta6Vals == {F(ONE)}
Var4Vals == {F(-ONE), PInf}
Var6Vals == {F(QUARTER)}
Cov46Vals == {F(0)}

\* A run of main, entered with parsed arguments and the input files on
\* disk, each file with a shape of its own.
Init ==
    /\ pc = "main"
    /\ n_obs \in ObsVals
    /\ n_predictors \in PredVals
    /\ files \in [beta4 : Arrays(Beta4Vals), beta6 : Arrays(Beta6Vals),
                  var4 : Arrays(Var4Vals), var6 : Arrays(Var6Vals),
                  cov46 : Arrays(Cov46Vals)]
    /\ df = Unset
    /\ beta_4 = Unset /\ beta_6 = Unset /\ var_4 = Unset
    /\ var_6 = Unset /\ cov_46 = Unset
    /\ p_map = Unset
    /\ output = Unset
    /\ calls = <<>>
    /\ engine_df = Unset

\* Lines 94-100: df and the five load_nifti calls.
Load ==
    /\ pc = "main"
    /\ df' = <<DfOf(n_obs, n_predictors)>>
    /\ beta_4' = files.beta4
    /\ beta_6' = files.beta6
    /\ var_4' = files.var4
    /\ var_6' = files.var6
    /\ cov_46' = files.cov46
    /\ pc' = "loaded"
    /\ UNCHANGED <<n_obs, n_predictors, files, p_map, output, calls, engine_df>>

\* Lines 103-105: the sanity check fails, ValueError ends the run.
SanityCheckRaises ==
    /\ pc = "loaded"
    /\ ShapeMismatch(beta_4, beta_6, var_4, var_6, cov_46)
    /\ pc' = "raised"
    /\ UNCHANGED <<n_obs, n_predictors, files, df, beta_4, beta_6, var_4,
                   var_6, cov_46, p_map, output, calls, engine_df>>

\* Lines 103-105: the sanity check passes.
SanityCheckPasses ==
    /\ pc = "loaded"
    /\ ~ShapeMismatch(beta_4, beta_6, var_4, var_6, cov_46)
    /\ pc' = "checked"
    /\ UNCHANGED <<n_obs, n_predictors, files, df, beta_4, beta_6, var_4,
                   var_6, cov_46, p_map, output, calls, engine_df>>

\* Line 107: p_map = compute_combined_pvalue(beta_4, beta_6, var_4, var_6,
\* cov_46, df); the arrays passed are main's own objects.
Compute ==
    /\ pc = "checked"
    /\ \E fr \in {compute_combined_pvalue(beta_4, beta_6, var_4, var_6,
                                            cov_46, df[1])} :
          /\ p_map' = fr.p_value_no_nans
          /\ beta_4' = fr.beta1
          /\ beta_6' = fr.beta2
          /\ var_4' = fr.var1
          /\ var_6' = fr.var2
          /\ cov_46' = fr.cov12
    /\ engine_df' = <<df[1]>>
    /\ calls' = Append(calls, "compute_combined_pvalue")
    /\ pc' = "computed"
    /\ UNCHANGED <<n_obs, n_predictors, files, df, output>>

\* Line 109: save_nifti(p_map, args.output, args.beta4) writes p_map with
\* the affine and header of the reference file.
Save ==
    /\ pc = "computed"
    /\ output' = p_map
    /\ calls' = Append(calls, "save_nifti")
    /\ pc' = "saved"
    /\ UNCHANGED <<n_obs, n_predictors, files, df, beta_4, beta_6, var_4,
                   var_6, cov_46, p_map, engine_df>>

Next == Load \/ SanityCheckRaises \/ SanityCheckPasses \/ Compute \/ Save

Spec == Init /\ [][Next]_vars

\* main is one sequential run: a step that can be taken is taken.
SpecFair == Spec /\ WF_vars(Next)

\* ------------------------------------------- the engine on its own
\* Coefficient pairs (beta1, beta2) of a voxel: sums 0, -3, NaN (from a
\* NaN and from Inf - Inf) and +Inf.
BetaPairs ==
    {<<F(ONE), F(-ONE)>>, <<F(-2 * ONE), F(-ONE)>>,
     <<NaN, F(-ONE)>>, <<PInf, NInf>>, <<PInf, F(-ONE)>>}

\* (var1, var2, cov12) of a voxel: combined variance -3/4, 0, 4 (with a
\* positive covariance), NaN and +Inf.
VarTriples ==
    {<<F(-ONE), F(QUARTER), F(0)>>, <<F(ONE), F(QUARTER), F(-(HALF + EIGHTH))>>,
     <<F(2 * ONE), F(ONE), F(HALF)>>,
     <<F(ONE), NaN, F(0)>>, <<PInf, F(QUARTER), F(0)>>}

\* compute_combined_pvalue called on five same-shaped arrays (main at line
\* 107, the sanity check passed), over every combination of the voxel
\* cases above.
InitEngine ==
    /\ pc = "checked"
    /\ n_obs \in ObsVals
    /\ n_predictors \in PredVals
    /\ df = <<DfOf(n_obs, n_predictors)>>
    /\ \E s \in Shapes :
         \E b \in [1..Size(s) -> BetaPairs], v \in [1..Size(s) -> VarTriples] :
            /\ beta_4 = Arr(s, [i \in 1..Size(s) |-> b[i][1]])
            /\ beta_6 = Arr(s, [i \in 1..Size(s) |-> b[i][2]])
            /\ var_4 = Arr(s, [i \in 1..Size(s) |-> v[i][1]])
            /\ var_6 = Arr(s, [i \in 1..Size(s) |-> v[i][2]])
            /\ cov_46 = Arr(s, [i \in 1..Size(s) |-> v[i][3]])
    /\ files = [beta4 |-> beta_4, beta6 |-> beta_6, var4 |-> var_4,
                var6 |-> var_6, cov46 |-> cov_46]
    /\ p_map = Unset
    /\ output = Unset
    /\ calls = <<>>
    /\ engine_df = Unset

NextEngine == Compute

SpecEngine == InitEngine /\ [][NextEngine]_vars

\* ------------------------------------------------------- properties
\* The inputs of the call, as they were before it: `files` never changes.
\* var1[i] + var2[i] + 2*cov12[i] of the inputs.
CombinedVar(i) ==
    Add(Add(files.var4.data[i], files.var6.data[i]),
        Mul(F(2 * ONE), files.cov46.data[i]))

\* beta1[i] + beta2[i] of the inputs.
BetaSum(i) == Add(files.beta4.data[i], files.beta6.data[i])

\* 2*(1 - T_cdf(|beta_a + beta_b| / sqrt(var_a + var_b + 2*cov_ab), df)) at
\* voxel i, for the df the engine was called with.
PFormula(i) ==
    The({Mul(F(2 * ONE), Sub(F(ONE), c))
         : c \in {T_cdf(t, engine_df[1])
                  : t \in {Div(Abs(BetaSum(i)), Sqrt(CombinedVar(i)))}}})

\* Voxel i of the inputs is a plain one: finite coefficients with a
\* non-zero sum and a finite positive combined variance.
PlainVoxel(i) ==
    /\ IsFin(files.beta4.data[i]) /\ IsFin(files.beta6.data[i])
    /\ BetaSum(i) # F(0)
    /\ IsFin(CombinedVar(i)) /\ GtZero(CombinedVar(i))

\* Two of the five input files differ in shape.
FilesMismatch ==
    \E f, g \in {"beta4", "beta6", "var4", "var6", "cov46"} :
        files[f].shape # files[g].shape

\* C1: at every voxel whose combined variance var1 + var2 + 2*cov12 is
\* <= 0 the returned p-value is exactly 0, whatever the coefficients and df.
C1_DegenerateVarianceIsZero ==
    pc = "computed" =>
        \A i \in Idx(p_map) : LeqZero(CombinedVar(i)) => p_map.data[i] = F(0)

\* C1 witness: a call with df > 0 returned 0 at a voxel of finite
\* coefficients whose combined variance is exactly 0, and another at a
\* voxel whose combined variance is negative.
C1_Witness ==
    /\ pc = "computed"
    /\ engine_df[1] > 0
    /\ \E i \in Idx(p_map) :
          /\ CombinedVar(i) = F(0)
          /\ IsFin(BetaSum(i))
          /\ p_map.data[i] = F(0)
    /\ \E i \in Idx(p_map) :
          /\ IsGrid(CombinedVar(i)) /\ CombinedVar(i).v < 0
          /\ p_map.data[i] = F(0)

\* C2 as stated: at every voxel whose combined variance is > 0 the output
\* equals 2*(1 - T_cdf(|beta_sum|/sqrt(var_sum), df)), NaN or infinite
\* coefficients included.
C2_Original ==
    pc = "computed" =>
        \A i \in Idx(p_map) :
            GtZero(CombinedVar(i)) => p_map.data[i] = PFormula(i)

\* C2 amended: at every voxel whose combined variance is > 0 the output
\* equals 2*(1 - T_cdf(|beta_sum|/sqrt(var_sum), df)) where that value is
\* defined, and 0 where it is NaN.
C2_FormulaOrZero ==
    pc = "computed" =>
        \A i \in Idx(p_map) :
            GtZero(CombinedVar(i)) =>
                p_map.data[i] = IF IsNaN(PFormula(i)) THEN F(0) ELSE PFormula(i)

\* C2 witness: a plain voxel got the value of the formula, strictly between
\* 0 and 1, and a voxel of positive combined variance with a NaN
\* coefficient got 0.
C2_Witness ==
    /\ pc = "computed"
    /\ \E i \in Idx(p_map) :
          /\ PlainVoxel(i)
          /\ p_map.data[i] = PFormula(i)
          /\ p_map.data[i].v > 0 /\ p_map.data[i].v < ONE
    /\ \E i \in Idx(p_map) :
          /\ GtZero(CombinedVar(i))
          /\ IsNaN(files.beta4.data[i])
          /\ p_map.data[i] = F(0)

\* C4: every voxel of the returned array is a finite number in [0, 1]; no
\* NaN is returned.  (A number in [0, 1] is a value of the grid: the
\* largest finite float64, which line 82 puts for an infinity, is finite
\* and outside [0, 1].)
C4_OutputInUnitInterval ==
    pc = "computed" =>
        \A i \in Idx(p_map) :
            /\ IsGrid(p_map.data[i])
            /\ p_map.data[i].v >= 0
            /\ p_map.data[i].v <= ONE

\* C4 witness: a call returned an array holding a value strictly inside
\* (0, 1) and a 0 at a voxel whose p-value was NaN before the cleaning.
C4_Witness ==
    /\ pc = "computed"
    /\ \E i \in Idx(p_map) : p_map.data[i].v > 0 /\ p_map.data[i].v < ONE
    /\ \E i \in Idx(p_map) :
          /\ IsNaN(PFormula(i))
          /\ IsInf(files.beta4.data[i])
          /\ p_map.data[i] = F(0)

\* Element-wise -a.
ArrNeg(a) == Arr(a.shape, [i \in Idx(a) |-> Neg(a.data[i])])

\* C5: the call on (-beta1, -beta2, var1, var2, cov12, df) returns the same
\* array as the call on (beta1, beta2, var1, var2, cov12, df).
C5_NegationSymmetry ==
    pc = "computed" =>
        compute_combined_pvalue(ArrNeg(files.beta4), ArrNeg(files.beta6),
                                files.var4, files.var6, files.cov46,
                                engine_df[1]).p_value_no_nans = p_map

\* C5 witness: a call returned a p-value strictly inside (0, 1) at a plain
\* voxel whose coefficient sum is negative, beside a degenerate voxel.
C5_Witness ==
    /\ pc = "computed"
    /\ \E i \in Idx(p_map) :
          /\ PlainVoxel(i)
          /\ BetaSum(i).v < 0
          /\ p_map.data[i].v > 0 /\ p_map.data[i].v < ONE
    /\ \E i \in Idx(p_map) : LeqZero(CombinedVar(i))

\* The one-voxel array holding voxel i of a.
OneVoxel(a, i) == Arr(<<1, 1>>, <<a.data[i]>>)

\* C6: the output at voxel i is the output of the call on voxel i alone:
\* it depends on no other voxel.
C6_PerVoxelIndependence ==
    pc = "computed" =>
        \A i \in Idx(p_map) :
            p_map.data[i] =
                compute_combined_pvalue(
                    OneVoxel(files.beta4, i), OneVoxel(files.beta6, i),
                    OneVoxel(files.var4, i), OneVoxel(files.var6, i),
                    OneVoxel(files.cov46, i),
                    engine_df[1]).p_value_no_nans.data[1]

\* C6 witness: a call on an array mixing a degenerate-variance voxel, a
\* NaN-coefficient voxel or both with a plain voxel, whose p-value came out
\* strictly inside (0, 1).
C6_Witness ==
    /\ pc = "computed"
    /\ \E i, j \in Idx(p_map) :
          /\ i # j
          /\ LeqZero(CombinedVar(i))
          /\ PlainVoxel(j)
          /\ p_map.data[i] = F(0)
          /\ p_map.data[j].v > 0 /\ p_map.data[j].v < ONE

\* C7: after the call the five argument arrays hold the values they held
\* before it.
C7_ArgumentsUnchanged ==
    pc = "computed" =>
        /\ beta_4 = files.beta4
        /\ beta_6 = files.beta6
        /\ var_4 = files.var4
        /\ var_6 = files.var6
        /\ cov_46 = files.cov46

\* C7 witness: a call whose combined variance was non-positive at every
\* voxel (each of them NaN-marked) returned with var1 as it was.
C7_Witness ==
    /\ pc = "computed"
    /\ \A i \in Idx(p_map) : LeqZero(CombinedVar(i)) /\ IsFin(var_4.data[i])
    /\ var_4 = files.var4

\* C8 as stated: at every voxel where beta1 + beta2 is exactly 0 and the
\* combined variance is > 0 the output is exactly 1.
C8_Original ==
    pc = "computed" =>
        \A i \in Idx(p_map) :
            (BetaSum(i) = F(0) /\ GtZero(CombinedVar(i))) =>
                p_map.data[i] = F(ONE)

\* C8 amended: when df > 0, at every voxel where beta1 + beta2 is exactly 0
\* and the combined variance is > 0 the output is exactly 1, whatever the
\* other voxels hold.
C8_ZeroBetaSumIsOne ==
    (pc = "computed" /\ engine_df[1] > 0) =>
        \A i \in Idx(p_map) :
            (BetaSum(i) = F(0) /\ GtZero(CombinedVar(i))) =>
                p_map.data[i] = F(ONE)

\* C8 witness: with df > 0, a voxel of non-zero coefficients summing to 0
\* and positive combined variance got 1 beside a degenerate voxel that got 0.
C8_Witness ==
    /\ pc = "computed"
    /\ engine_df[1] > 0
    /\ \E i, j \in Idx(p_map) :
          /\ BetaSum(i) = F(0) /\ files.beta4.data[i] # F(0)
          /\ GtZero(CombinedVar(i))
          /\ p_map.data[i] = F(ONE)
          /\ LeqZero(CombinedVar(j))
          /\ p_map.data[j] = F(0)

\* C3: when two of the five loaded arrays differ in shape, the run raises
\* before compute_combined_pvalue and save_nifti are called: past the
\* sanity check such a run is in its raised state, has made no call, holds
\* no p_map and has written no output file.
C3_MismatchRaisesBeforeCompute ==
    (FilesMismatch /\ pc \notin {"main", "loaded"}) =>
        /\ pc = "raised"
        /\ calls = <<>>
        /\ p_map = Unset
        /\ output = Unset

\* C3 witness: a run raised on five arrays of the same number of voxels,
\* one of them (the covariance map) of another shape, and wrote nothing.
C3_Witness ==
    /\ pc = "raised"
    /\ beta_4.shape = beta_6.shape
    /\ beta_6.shape = var_4.shape
    /\ var_4.shape = var_6.shape
    /\ var_6.shape # cov_46.shape
    /\ Size(var_6.shape) = Size(cov_46.shape)
    /\ output = Unset

\* The order of a run: nothing is called before the sanity check has
\* passed; then compute_combined_pvalue once, then save_nifti once; the
\* output file exists only once save_nifti was called and then holds the
\* whole p-value volume, one value per input voxel.  A raised run had
\* mismatched shapes and had called nothing.
RunOrder ==
    /\ pc = "raised" => (FilesMismatch /\ calls = <<>> /\ output = Unset)
    /\ pc \in {"main", "loaded", "checked"} => (calls = <<>> /\ output = Unset)
    /\ pc = "computed" =>
          (calls = <<"compute_combined_pvalue">> /\ output = Unset)
    /\ pc = "saved" =>
          /\ calls = <<"compute_combined_pvalue", "save_nifti">>
          /\ output = p_map
          /\ output.shape = files.beta4.shape
          /\ Len(output.data) = Size(files.beta4.shape)

\* C9: only a shape mismatch halts a run.  Every run keeps the order shape
\* check, one call of compute_combined_pvalue, one call of save_nifti, and
\* a run over same-shaped arrays goes on until it has written the complete
\* output, whatever its voxels hold; a raised run had mismatched shapes and
\* had computed and written nothing.
C9_OnlyShapeMismatchHalts ==
    /\ []RunOrder
    /\ (~FilesMismatch) ~> (pc = "saved")

\* C9 witness: a run over same-shaped volumes holding a NaN coefficient, a
\* non-positive combined variance and an infinite variance reached
\* save_nifti and wrote the whole volume.
C9_Witness ==
    /\ pc = "saved"
    /\ Len(output.data) = MaxVoxels
    /\ \E i \in Idx(output) : IsNaN(files.beta4.data[i])
    /\ \E i \in Idx(output) : LeqZero(CombinedVar(i)) /\ output.data[i] = F(0)
    /\ \E i \in Idx(output) : IsInf(files.var4.data[i])

\* Whatever df main holds is n_obs - n_predictors - 1, and the engine, once
\* called, was called with exactly that value.
DfAsComputed ==
    /\ df # Unset => df = <<n_obs - n_predictors - 1>>
    /\ engine_df # Unset => engine_df = <<n_obs - n_predictors - 1>>
    /\ pc \in {"computed", "saved"} => engine_df # Unset

\* C10: df = n_obs - n_predictors - 1 reaches the engine as it is, for
\* df <= 0 too: the engine is called with exactly that value, and every
\* same-shaped run with df <= 0 goes on to save_nifti, the engine having
\* been called with that df.
C10_DfPassedUnvalidated ==
    /\ []DfAsComputed
    /\ (~FilesMismatch /\ n_obs - n_predictors - 1 <= 0)
           ~> (pc = "saved" /\ engine_df = <<n_obs - n_predictors - 1>>)

\* C10 witness: a run with n_obs < n_predictors + 1 (df < 0) called the
\* engine with that df and reached save_nifti.
C10_Witness ==
    /\ pc = "saved"
    /\ n_obs - n_predictors - 1 < 0
    /\ engine_df = <<n_obs - n_predictors - 1>>
    /\ output # Unset

====
